---------------------------- MODULE Spec2Model ----------------------------
(***************************************************************************)
(* create_thesis_docx.py: a script that builds one document in memory     *)
(* (page margins, title page, table of contents, eleven numbered          *)
(* sections, two tables) and saves it to a fixed path.                     *)
(*                                                                         *)
(* The script is a straight line of statements over literal data.  The    *)
(* model keeps it as a program: Program is the sequence of the script's   *)
(* statements in execution order, pc is the statement to execute next,    *)
(* and there is one action per kind of statement.  A loop over a literal  *)
(* list contributes its body once per element (For); the loop over        *)
(* doc.sections runs over the state.                                      *)
(*                                                                         *)
(* Text: a literal of more than 48 characters, or of several lines, is    *)
(* written as its first 40 characters (of its first line) followed by     *)
(* "..."; a character outside ASCII is written "?".  Headings, table      *)
(* cells, styles and the output path are written in full.                 *)
(*                                                                         *)
(* Lengths are in EMU, as the document library stores them (Pt, Inches).  *)
(*                                                                         *)
(* Environment: the document library is installed and its template has    *)
(* the styles the script names, and the console accepts the text printed; *)
(* the one operation that can fail is doc.save, when the output path      *)
(* cannot be written.                                                     *)
(*                                                                         *)
(* Specifications: Spec is one run of the script (FairSpec: run to its    *)
(* end); RunsSpec runs it again on the files an earlier run left;         *)
(* TableSpec runs the population loop of the comparison table over other  *)
(* data; SpacingSpec calls set_paragraph_spacing on any paragraph;        *)
(* StyledParagraphSpec and StyledHeadingSpec call the two helpers the     *)
(* script defines and does not use.                                       *)
(***************************************************************************)
EXTENDS Integers, Sequences, FiniteSets, TLC

VARIABLES
    pc,          \* index in Program of the statement executed next
    raised,      \* "" or the exception that ended the run
    sections,    \* doc.sections: the page margins of each section
    section,     \* the loop variable of "for section in sections" (an index)
    marginSets,  \* per section and margin, how many assignments were executed
    blocks,      \* the document body: its blocks in document order
    env,         \* the script's variables that hold a block, a run or a row
    files,       \* the files the run has written: path -> what the file holds
    saveCalls,   \* how many times doc.save was called
    stdout       \* the lines printed

vars == <<pc, raised, sections, section, marginSets, blocks, env, files,
          saveCalls, stdout>>

-----------------------------------------------------------------------------
(* Values of the document library *)

\* Python's None where a string is expected (a style, an alignment)
None == "None"

\* An optional number or flag: unset (None), or set to v
Unset == <<>>
Some(v) == <<v>>

\* docx.shared.Pt / docx.shared.Inches: a length in EMU
EMUS_PER_PT == 12700
EMUS_PER_INCH == 914400
Pt(points) == points * EMUS_PER_PT
\* Inches(num/den): Inches(1) is Inches(1, 1), Inches(1.25) is Inches(5, 4)
Inches(num, den) == (num * EMUS_PER_INCH) \div den
RGBColor(r, g, b) == <<r, g, b>>

\* The sections the default template of Document() has
TemplateSections == 1
\* The margins the template may come with, before the script sets its own
TemplateMargins == {Inches(1, 1), Inches(5, 4)}

-----------------------------------------------------------------------------
(* Python helpers *)

RECURSIVE Concat(_)
Concat(seqs) == IF seqs = <<>> THEN <<>> ELSE Head(seqs) \o Concat(Tail(seqs))

\* for x in list: body      the statements executed: the body's statements
\* once per element, in the order of the list (iterations[n] is the body
\* with x bound to the n-th element)
For(iterations) == Concat(iterations)

\* An enumerate that counts from the element after start
enumerate_from_next(list, start) == [k \in DOMAIN list |-> <<start + k, list[k]>>]

\* enumerate(list, start): the pairs (start, list[0]), (start + 1, list[1]), ...
enumerate(list, start) == [k \in DOMAIN list |-> <<start + k - 1, list[k]>>]

\* str.split(sep) on a text given as its pieces, the separator being a piece
RECURSIVE split(_, _)
split(text, sep) ==
    IF text = <<>> THEN <<"">>
    ELSE IF Head(text) = sep THEN <<"">> \o split(Tail(text), sep)
    ELSE LET rest == split(Tail(text), sep)
         IN  <<Head(text) \o Head(rest)>> \o Tail(rest)

\* ord() of the characters of the strings the script compares (line 328)
ord(s) ==
    CASE s = "Service Independence" ->
           <<83, 101, 114, 118, 105, 99, 101, 32, 73, 110, 100, 101, 112, 101,
             110, 100, 101, 110, 99, 101>>
      [] s = "Decentralized Data Management" ->
           <<68, 101, 99, 101, 110, 116, 114, 97, 108, 105, 122, 101, 100, 32,
             68, 97, 116, 97, 32, 77, 97, 110, 97, 103, 101, 109, 101, 110, 116>>
      [] s = "Fault Isolation" ->
           <<70, 97, 117, 108, 116, 32, 73, 115, 111, 108, 97, 116, 105, 111, 110>>
      [] s = "Scalability and Resilience" ->
           <<83, 99, 97, 108, 97, 98, 105, 108, 105, 116, 121, 32, 97, 110, 100,
             32, 82, 101, 115, 105, 108, 105, 101, 110, 99, 101>>

\* a <= b on sequences of code points: Python's string order
RECURSIVE LexLe(_, _)
LexLe(a, b) ==
    IF a = <<>> THEN TRUE
    ELSE IF b = <<>> THEN FALSE
    ELSE IF Head(a) # Head(b) THEN Head(a) < Head(b)
    ELSE LexLe(Tail(a), Tail(b))

\* p[0] <= title   (line 328)
StrLe(a, b) == LexLe(ord(a), ord(b))

-----------------------------------------------------------------------------
(* Statements: one record per call or assignment of the script.  bind is   *)
(* the script variable the result is assigned to ("" when it is dropped).  *)

Document_(bind) == [op |-> "Document", bind |-> bind]
for_section(body) == [op |-> "for_section", body |-> body]
set_margin(side, value) == [op |-> "set_margin", side |-> side, value |-> value]
add_paragraph(text, style, bind) ==
    [op |-> "add_paragraph", text |-> text, style |-> style, bind |-> bind]
\* A heading statement that counts levels from 0
add_heading_from_zero(text, level, bind) ==
    [op |-> "add_heading", text |-> text, level |-> level - 1, bind |-> bind]
add_heading(text, level, bind) ==
    [op |-> "add_heading", text |-> text, level |-> level, bind |-> bind]
add_page_break(bind) == [op |-> "add_page_break", bind |-> bind]
add_table(rows, cols, bind) ==
    [op |-> "add_table", rows |-> rows, cols |-> cols, bind |-> bind]
add_run(var, text, bind) ==
    [op |-> "add_run", var |-> var, text |-> text, bind |-> bind]
set_alignment(var, value) == [op |-> "set_alignment", var |-> var, value |-> value]
set_style(var, style) == [op |-> "set_style", var |-> var, style |-> style]
set_font(var, attr, value) ==
    [op |-> "set_font", var |-> var, attr |-> attr, value |-> value]
call_set_paragraph_spacing(var, space_before, space_after) ==
    [op |-> "set_paragraph_spacing", var |-> var,
     space_before |-> space_before, space_after |-> space_after]
row_cells(var, row, bind) ==
    [op |-> "row_cells", var |-> var, row |-> row, bind |-> bind]
set_cell_text(var, col, text) ==
    [op |-> "set_cell_text", var |-> var, col |-> col, text |-> text]
save(path) == [op |-> "save", path |-> path]
print(text) == [op |-> "print", text |-> text]

\* def set_paragraph_spacing(paragraph, space_before=0, space_after=12)
space_before_default == 0
space_after_default == 12

-----------------------------------------------------------------------------
(* The script *)

\* A setup that sets the margins after the title paragraph is added
SetupLate ==
    <<Document_("doc"),
      add_paragraph("", None, "title"),
      for_section(4),
      set_margin("top_margin", Inches(1, 1)),
      set_margin("bottom_margin", Inches(1, 1)),
      set_margin("left_margin", Inches(5, 4)),
      set_margin("right_margin", Inches(5, 4))>>

\* doc = Document(); for section in sections: four margins
Setup ==
    <<Document_("doc"),
      for_section(4),
      set_margin("top_margin", Inches(1, 1)),
      set_margin("bottom_margin", Inches(1, 1)),
      set_margin("left_margin", Inches(5, 4)),
      set_margin("right_margin", Inches(5, 4))>>

\* lines 79-79
info_text == <<
        "Author: Developer", "\n",
        "Date: January 26, 2026", "\n",
        "Institution: [University Name]", "\n",
        "Program: Computer Science / Software Engineering / Information Systems" >>

\* lines 56-85
TitlePage ==
    <<add_paragraph("", None, "title"),
       set_alignment("title", "CENTER"),
       add_run("title", "Design and Implementation of a Microserv...", "title_run"),
       set_font("title_run", "size", Pt(16)),
       set_font("title_run", "bold", TRUE),
       set_font("title_run", "color", RGBColor(0, 51, 102)),
       add_paragraph("", None, ""),
       add_paragraph("", None, "subtitle"),
       set_alignment("subtitle", "CENTER"),
       add_run("subtitle", "Bachelor Thesis Documentation", "subtitle_run"),
       set_font("subtitle_run", "size", Pt(14)),
       set_font("subtitle_run", "bold", TRUE),
       add_paragraph("", None, ""),
       add_paragraph("", None, ""),
       add_paragraph("", None, ""),
       add_paragraph("", None, "info"),
       set_alignment("info", "CENTER")>>
    \o For([n1 \in DOMAIN split(info_text, "\n") |->
          LET line == split(info_text, "\n")[n1]
          IN  <<add_paragraph(line, None, "p"),
       set_alignment("p", "CENTER"),
       call_set_paragraph_spacing("p", space_before_default, 0)>>])
    \o <<add_page_break("")>>

\* lines 93-108
toc_items == <<
        "1. Abstract",
        "2. Introduction",
        "3. Theoretical Background",
        "4. Technologies and Tools",
        "5. System Requirements and Analysis",
        "6. System Architecture Design",
        "7. Implementation Details",
        "8. Testing and Validation",
        "9. Security Considerations",
        "10. Results and Evaluation",
        "11. Future Improvements",
        "12. Conclusion",
        "13. References",
        "14. Appendices" >>

\* A table of contents that is not followed by a page break
TableOfContentsRunOn ==
    <<add_heading("Table of Contents", 1, "")>>
    \o For([n1 \in DOMAIN toc_items |->
          LET item == toc_items[n1]
          IN  <<add_paragraph(item, "List Bullet", "p"),
       call_set_paragraph_spacing("p", space_before_default, 6)>>])

\* lines 91-114
TableOfContents ==
    <<add_heading("Table of Contents", 1, "")>>
    \o For([n1 \in DOMAIN toc_items |->
          LET item == toc_items[n1]
          IN  <<add_paragraph(item, "List Bullet", "p"),
       call_set_paragraph_spacing("p", space_before_default, 6)>>])
    \o <<add_page_break("")>>

\* lines 120-137
Abstract ==
    <<add_heading("Abstract", 1, ""),
       add_paragraph("This thesis presents the design and impl...", None, "abstract_para"),
       call_set_paragraph_spacing("abstract_para", space_before_default, space_after_default),
       add_paragraph("", None, "keywords_para"),
       add_run("keywords_para", "Keywords: ", "keywords_run"),
       set_font("keywords_run", "bold", TRUE),
       add_run("keywords_para", "Microservices, NestJS, GitHub API, Docke...", ""),
       call_set_paragraph_spacing("keywords_para", space_before_default, space_after_default),
       add_page_break("")>>

\* lines 143-238
Section1 ==
  LET motivation_items == <<
        "Efficiently processing and storing GitHu...",
        "Managing user authentication and authori...",
        "Delivering asynchronous notifications to users",
        "Implementing centralized logging across ...",
        "Scaling independently based on workload demands" >>
      problems == <<
        <<"Monolithic Limitations", "Single-deployment architectures make it ...">>,
        <<"API Rate Limiting", "GitHub enforces strict rate limits on AP...">>,
        <<"Authentication Complexity", "Managing authentication across multiple ...">>,
        <<"Asynchronous Operations", "Sending email notifications, processing ...">>,
        <<"Data Persistence", "Storing GitHub data while maintaining co...">>,
        <<"Observability", "In distributed systems, understanding re...">> >>
      objectives == <<
        "Design a Scalable Microservice Architect...",
        "Implement GitHub API Integration: Build ...",
        "Develop Email Notification System: Imple...",
        "Establish Centralized Logging: Create a ...",
        "Ensure Security: Implement industry-stan...",
        "Demonstrate Production Readiness: Implem..." >>
      questions == <<
        "How can microservice architecture improv...",
        "What are the most effective patterns and...",
        "How can NestJS features (dependency inje...",
        "What trade-offs exist between service in...",
        "How can centralized logging and monitori..." >>
  IN
    <<add_heading("1. Introduction", 1, ""),
       add_heading("1.1 Background and Motivation", 2, ""),
       add_paragraph("The evolution of software architecture o...", None, ""),
       add_paragraph("GitHub has become the central platform f...", None, ""),
       add_paragraph("The motivation for this thesis stems fro...", None, "")>>
    \o For([n1 \in DOMAIN motivation_items |->
          LET item == motivation_items[n1]
          IN  <<add_paragraph(item, "List Bullet", "")>>])
    \o <<add_paragraph("The choice of NestJS as the primary fram...", None, ""),
       add_heading("1.2 Problem Statement", 2, ""),
       add_paragraph("Contemporary backend systems face severa...", None, "")>>
    \o For([n1 \in DOMAIN problems |->
          LET title == problems[n1][1]
              description == problems[n1][2]
          IN  <<add_paragraph("", None, "p"),
       add_run("p", title \o ": ", "p_run"),
       set_font("p_run", "bold", TRUE),
       add_run("p", description, "")>>])
    \o <<add_heading("1.3 Goals and Objectives", 2, ""),
       add_paragraph("The primary objectives of this thesis are:", None, "")>>
    \o For([n1 \in DOMAIN enumerate(objectives, 1) |->
          LET i == enumerate(objectives, 1)[n1][1]
              obj == enumerate(objectives, 1)[n1][2]
          IN  <<add_paragraph(obj, "List Number", "")>>])
    \o <<add_heading("1.4 Research Questions", 2, ""),
       add_paragraph("This thesis aims to answer the following...", None, "")>>
    \o For([n1 \in DOMAIN questions |->
          LET q == questions[n1]
          IN  <<add_paragraph(q, "List Number", "")>>])
    \o <<add_heading("1.5 Thesis Structure Overview", 2, ""),
       add_paragraph("This documentation is organized into twe...", None, ""),
       add_page_break("")>>

\* lines 306-311
data == <<
        <<"Deployment", "Single unit", "Multiple services", "Independent services">>,
        <<"Scalability", "Component level", "Service level", "Fine-grained">>,
        <<"Technology", "Unified", "Mixed", "Flexible per service">>,
        <<"Data Management", "Shared DB", "Often shared", "Independent per service">> >>

\* lines 320-325
principles == <<
        <<"Service Independence", "Each microservice should be independentl...">>,
        <<"Decentralized Data Management", "Rather than sharing a single database, e...">>,
        <<"Fault Isolation", "Failure of one service should not cascad...">>,
        <<"Scalability and Resilience", "Microservices architectures enable granu...">> >>

\* lines 244-352
Section2 ==
  LET char_mono == <<
        "Single codebase and deployment unit",
        "Shared database",
        "Tight coupling between components",
        "Unified technology stack" >>
      adv_mono == <<
        "Simpler initial development",
        "Easier debugging and testing in early stages",
        "Straightforward deployment process" >>
      dis_mono == <<
        "Difficult to scale individual components",
        "Technology lock-in",
        "Higher risk of cascading failures",
        "Slower development cycles for large teams",
        "Complex to modify and maintain" >>
      char_soa == <<
        "Services are independent but may share databases",
        "Services communicate through formal contracts",
        "Emphasis on service reusability",
        "Enterprise Service Bus (ESB) for message routing" >>
      char_ms == <<
        "Small, focused services",
        "Independent data stores per service",
        "Lightweight communication (HTTP, event-based)",
        "Decentralized development and deployment",
        "Each service deployable independently" >>
      adv_ms == <<
        "True scalability - scale only what's needed",
        "Technology flexibility per service",
        "Independent development cycles",
        "Fault isolation",
        "Rapid deployment and iteration",
        "Language and framework diversity" >>
  IN
    <<add_heading("2. Theoretical Background", 1, ""),
       add_heading("2.1 Software Architecture Concepts", 2, ""),
       add_heading("2.1.1 Monolithic Architecture", 3, ""),
       add_paragraph("A monolithic architecture represents the...", None, ""),
       add_paragraph("Characteristics:", None, "")>>
    \o For([n1 \in DOMAIN char_mono |->
          LET char == char_mono[n1]
          IN  <<add_paragraph(char, "List Bullet", "")>>])
    \o <<add_paragraph("Advantages:", None, "")>>
    \o For([n1 \in DOMAIN adv_mono |->
          LET adv == adv_mono[n1]
          IN  <<add_paragraph(adv, "List Bullet", "")>>])
    \o <<add_paragraph("Disadvantages:", None, "")>>
    \o For([n1 \in DOMAIN dis_mono |->
          LET dis == dis_mono[n1]
          IN  <<add_paragraph(dis, "List Bullet", "")>>])
    \o <<add_heading("2.1.2 Service-Oriented Architecture (SOA)", 3, ""),
       add_paragraph("Service-Oriented Architecture (SOA) is a...", None, ""),
       add_paragraph("Characteristics:", None, "")>>
    \o For([n1 \in DOMAIN char_soa |->
          LET char == char_soa[n1]
          IN  <<add_paragraph(char, "List Bullet", "")>>])
    \o <<add_heading("2.1.3 Microservice Architecture", 3, ""),
       add_paragraph("Microservice architecture extends SOA pr...", None, ""),
       add_paragraph("Characteristics:", None, "")>>
    \o For([n1 \in DOMAIN char_ms |->
          LET char == char_ms[n1]
          IN  <<add_paragraph(char, "List Bullet", "")>>])
    \o <<add_paragraph("Advantages:", None, "")>>
    \o For([n1 \in DOMAIN adv_ms |->
          LET adv == adv_ms[n1]
          IN  <<add_paragraph(adv, "List Bullet", "")>>])
    \o <<add_heading("2.1.4 Comparison and Trade-offs", 3, ""),
       add_table(5, 4, "table"),
       set_style("table", "Light Grid Accent 1"),
       row_cells("table", 0, "header_cells"),
       set_cell_text("header_cells", 0, "Aspect"),
       set_cell_text("header_cells", 1, "Monolithic"),
       set_cell_text("header_cells", 2, "SOA"),
       set_cell_text("header_cells", 3, "Microservices")>>
    \o For([n1 \in DOMAIN enumerate(data, 1) |->
          LET i == enumerate(data, 1)[n1][1]
              row_data == enumerate(data, 1)[n1][2]
          IN  <<row_cells("table", i, "cells")>>
    \o For([n2 \in DOMAIN enumerate(row_data, 0) |->
              LET j == enumerate(row_data, 0)[n2][1]
                  cell_data == enumerate(row_data, 0)[n2][2]
              IN  <<set_cell_text("cells", j, cell_data)>>])])
    \o <<add_heading("2.2 Microservices Principles", 2, "")>>
    \o For([n1 \in DOMAIN principles |->
          LET title == principles[n1][1]
              description == principles[n1][2]
          IN  <<add_heading("2.2." \o ToString(Cardinality({k \in DOMAIN principles : StrLe(principles[k][1], title)})) \o " " \o title, 3, ""),
       add_paragraph(description, None, "")>>])
    \o <<add_heading("2.3 Backend Frameworks for Microservices", 2, ""),
       add_heading("2.3.1 NestJS Framework", 3, ""),
       add_paragraph("NestJS is a progressive Node.js framewor...", None, ""),
       add_page_break("")>>

\* lines 358-455
Section3 ==
  LET ts_benefits == <<
        "Static Type Checking: Errors caught at c...",
        "Enhanced IDE Support: Accurate autocompl...",
        "Self-Documenting Code: Type annotations ...",
        "Better Maintainability: Easier to unders...",
        "Advanced Features: Interfaces, generics,..." >>
      typeorm_features == <<
        "Decorator-based entity definition",
        "Type-safe queries",
        "Automatic migrations",
        "Relation management",
        "Query builder for complex queries" >>
      redis_uses == <<
        "Caching frequently accessed data to redu...",
        "Session storage for user authentication",
        "Message queues for asynchronous operations",
        "Logging aggregation from multiple services" >>
      docker_benefits == <<
        "Development: Consistent environment acro...",
        "Testing: Reproducible test environment",
        "Deployment: Same containers move from de...",
        "Scaling: Easily replicate services",
        "Isolation: Services run in isolated environments" >>
  IN
    <<add_heading("3. Technologies and Tools", 1, ""),
       add_heading("3.1 Programming Language: TypeScript", 2, ""),
       add_paragraph("TypeScript is a superset of JavaScript t...", None, ""),
       add_paragraph("Key Benefits:", None, "")>>
    \o For([n1 \in DOMAIN ts_benefits |->
          LET benefit == ts_benefits[n1]
          IN  <<add_paragraph(benefit, "List Bullet", "")>>])
    \o <<add_heading("3.2 Database: PostgreSQL and TypeORM", 2, ""),
       add_paragraph("PostgreSQL is a powerful, open-source re...", None, ""),
       add_paragraph("TypeORM is an ORM that bridges the gap b...", None, "")>>
    \o For([n1 \in DOMAIN typeorm_features |->
          LET feature == typeorm_features[n1]
          IN  <<add_paragraph(feature, "List Bullet", "")>>])
    \o <<add_heading("3.3 Redis", 2, ""),
       add_paragraph("Redis is an in-memory data structure sto...", None, ""),
       add_paragraph("Use Cases in this Project:", None, "")>>
    \o For([n1 \in DOMAIN redis_uses |->
          LET use == redis_uses[n1]
          IN  <<add_paragraph(use, "List Bullet", "")>>])
    \o <<add_heading("3.4 Docker and Docker Compose", 2, ""),
       add_paragraph("Docker enables containerization of appli...", None, ""),
       add_paragraph("Benefits:", None, "")>>
    \o For([n1 \in DOMAIN docker_benefits |->
          LET benefit == docker_benefits[n1]
          IN  <<add_paragraph(benefit, "List Bullet", "")>>])
    \o <<add_heading("3.5 External Services", 2, ""),
       add_heading("3.5.1 GitHub REST API", 3, ""),
       add_paragraph("GitHub provides a comprehensive REST API...", None, ""),
       add_heading("3.5.2 Email Services", 3, ""),
       add_paragraph("The system supports multiple email provi...", None, ""),
       add_page_break("")>>

\* lines 553-557
roles == <<
        <<"Anonymous User", <<"Can browse public information (if available)", "Can register for an account", "Cannot access protected resources">>>>,
        <<"Authenticated User", <<"Can access their own data", "Can search for repositories", "Can manage their profile", "Can receive email notifications">>>>,
        <<"System Administrator", <<"Can monitor system health", "Can view logs from all services", "Can manage user accounts", "Can configure system parameters">>>> >>

\* lines 461-578
Section4 ==
  LET user_reqs == <<
        "F1.1: Users must be able to register wit...",
        "F1.2: Users must be able to login with c...",
        "F1.3: Users must be able to update their...",
        "F1.4: Users must be able to logout and i...",
        "F1.5: System must support password reset..." >>
      github_reqs == <<
        "F2.1: System must fetch repository infor...",
        "F2.2: System must store retrieved reposi...",
        "F2.3: System must support repository sea...",
        "F2.4: System must retrieve and display r...",
        "F2.5: System must handle GitHub API rate...",
        "F2.6: System must support pagination for..." >>
      email_reqs == <<
        "F3.1: System must send email confirmatio...",
        "F3.2: System must send email notificatio...",
        "F3.3: System must support asynchronous e...",
        "F3.4: System must log email sending atte...",
        "F3.5: System must support email template..." >>
      log_reqs == <<
        "F4.1: System must log all API requests",
        "F4.2: System must log errors and excepti...",
        "F4.3: System must aggregate logs from al...",
        "F4.4: System must support different log ...",
        "F4.5: System must persist logs for histo..." >>
      perf_reqs == <<
        "NF1.1: API responses for cached data mus...",
        "NF1.2: API responses for fresh data must...",
        "NF1.3: Email delivery must complete with...",
        "NF1.4: System must handle 100 concurrent..." >>
      scalability_reqs == <<
        "NF2.1: Each service must be independentl...",
        "NF2.2: System must support horizontal sc...",
        "NF2.3: Database connection pooling must ...",
        "NF2.4: Cache must support distributed in..." >>
      sec_reqs == <<
        "NF4.1: All sensitive data must be encryp...",
        "NF4.2: All sensitive data must be encryp...",
        "NF4.3: JWT tokens must be signed with st...",
        "NF4.4: API credentials must never be log..." >>
      constraints == <<
        "GitHub API: 5,000 requests per hour for ...",
        "Email Provider: Rate limits and bounce h...",
        "Database: PostgreSQL version 12 or higher",
        "Node.js: Version 16 or higher",
        "Docker: Version 20.10 or higher",
        "Internet: Persistent connection required..." >>
  IN
    <<add_heading("4. System Requirements and Analysis", 1, ""),
       add_heading("4.1 Functional Requirements", 2, ""),
       add_heading("4.1.1 User Management", 3, "")>>
    \o For([n1 \in DOMAIN user_reqs |->
          LET req == user_reqs[n1]
          IN  <<add_paragraph(req, "List Bullet", "")>>])
    \o <<add_heading("4.1.2 GitHub Integration", 3, "")>>
    \o For([n1 \in DOMAIN github_reqs |->
          LET req == github_reqs[n1]
          IN  <<add_paragraph(req, "List Bullet", "")>>])
    \o <<add_heading("4.1.3 Email Notifications", 3, "")>>
    \o For([n1 \in DOMAIN email_reqs |->
          LET req == email_reqs[n1]
          IN  <<add_paragraph(req, "List Bullet", "")>>])
    \o <<add_heading("4.1.4 Logging", 3, "")>>
    \o For([n1 \in DOMAIN log_reqs |->
          LET req == log_reqs[n1]
          IN  <<add_paragraph(req, "List Bullet", "")>>])
    \o <<add_heading("4.2 Non-Functional Requirements", 2, ""),
       add_heading("4.2.1 Performance", 3, "")>>
    \o For([n1 \in DOMAIN perf_reqs |->
          LET req == perf_reqs[n1]
          IN  <<add_paragraph(req, "List Bullet", "")>>])
    \o <<add_heading("4.2.2 Scalability", 3, "")>>
    \o For([n1 \in DOMAIN scalability_reqs |->
          LET req == scalability_reqs[n1]
          IN  <<add_paragraph(req, "List Bullet", "")>>])
    \o <<add_heading("4.2.3 Security", 3, "")>>
    \o For([n1 \in DOMAIN sec_reqs |->
          LET req == sec_reqs[n1]
          IN  <<add_paragraph(req, "List Bullet", "")>>])
    \o <<add_heading("4.3 User Roles and Use Cases", 2, ""),
       add_heading("4.3.1 User Roles", 3, "")>>
    \o For([n1 \in DOMAIN roles |->
          LET role_name == roles[n1][1]
              role_perms == roles[n1][2]
          IN  <<add_heading(role_name, 4, "")>>
    \o For([n2 \in DOMAIN role_perms |->
              LET perm == role_perms[n2]
              IN  <<add_paragraph(perm, "List Bullet", "")>>])])
    \o <<add_heading("4.4 System Constraints and Assumptions", 2, "")>>
    \o For([n1 \in DOMAIN constraints |->
          LET constraint == constraints[n1]
          IN  <<add_paragraph(constraint, "List Bullet", "")>>])
    \o <<add_page_break("")>>

\* lines 584-680
Section5 ==
  LET gateway_resp == <<
        "Request routing to appropriate services",
        "Authentication enforcement (JWT validation)",
        "Request validation and sanitization",
        "Response aggregation",
        "Rate limiting and throttling",
        "Load balancing across service instances" >>
      github_stack_resp == <<
        "GitHub REST API integration",
        "Repository data retrieval and caching",
        "Release management",
        "Rate limit handling",
        "Data transformation and validation",
        "Background job scheduling for syncing" >>
      email_resp == <<
        "Asynchronous email queue processing",
        "SMTP configuration management",
        "Email template rendering",
        "Delivery tracking and logging",
        "Retry logic for failed deliveries" >>
      logger_resp == <<
        "Centralized log aggregation",
        "Log persistence and storage",
        "Log search and filtering",
        "Metrics and analytics",
        "Alert generation for critical events" >>
  IN
    <<add_heading("5. System Architecture Design", 1, ""),
       add_heading("5.1 Overall Architecture Overview", 2, ""),
       add_paragraph("The system follows a microservice-based ...", None, ""),
       add_heading("5.2 Service Responsibilities", 2, ""),
       add_heading("5.2.1 API Gateway", 3, "")>>
    \o For([n1 \in DOMAIN gateway_resp |->
          LET resp == gateway_resp[n1]
          IN  <<add_paragraph(resp, "List Bullet", "")>>])
    \o <<add_heading("5.2.2 GitHub Stack Service", 3, "")>>
    \o For([n1 \in DOMAIN github_stack_resp |->
          LET resp == github_stack_resp[n1]
          IN  <<add_paragraph(resp, "List Bullet", "")>>])
    \o <<add_heading("5.2.3 Email Service", 3, "")>>
    \o For([n1 \in DOMAIN email_resp |->
          LET resp == email_resp[n1]
          IN  <<add_paragraph(resp, "List Bullet", "")>>])
    \o <<add_heading("5.2.4 Logger Service", 3, "")>>
    \o For([n1 \in DOMAIN logger_resp |->
          LET resp == logger_resp[n1]
          IN  <<add_paragraph(resp, "List Bullet", "")>>])
    \o <<add_heading("5.3 Database Design", 2, ""),
       add_paragraph("The system uses PostgreSQL with TypeORM ...", None, ""),
       add_heading("5.4 Communication Patterns", 2, ""),
       add_paragraph("Services communicate using REST APIs wit...", None, ""),
       add_page_break("")>>

\* lines 715-722
tech_data == <<
        <<"Framework", "NestJS 10+">>,
        <<"Language", "TypeScript 5+">>,
        <<"Database", "PostgreSQL 15">>,
        <<"Cache/Queue", "Redis 7">>,
        <<"Runtime", "Node.js 18+">>,
        <<"Containerization", "Docker & Docker Compose">> >>

\* lines 686-802
Section6 ==
    <<add_heading("6. Implementation Details", 1, ""),
       add_heading("6.1 Project Structure", 2, ""),
       add_paragraph("The project follows a monorepo structure...", None, ""),
       add_heading("6.2 Technology Stack Summary", 2, ""),
       add_table(7, 2, "tech_table"),
       set_style("tech_table", "Light Grid Accent 1"),
       row_cells("tech_table", 0, "headers"),
       set_cell_text("headers", 0, "Component"),
       set_cell_text("headers", 1, "Technology")>>
    \o For([n1 \in DOMAIN enumerate(tech_data, 1) |->
          LET i == enumerate(tech_data, 1)[n1][1]
              row_data == enumerate(tech_data, 1)[n1][2]
          IN  <<row_cells("tech_table", i, "cells"),
       set_cell_text("cells", 0, row_data[1]),
       set_cell_text("cells", 1, row_data[2])>>])
    \o <<add_heading("6.3 Key Libraries and Dependencies", 2, ""),
       add_paragraph("The project uses several key libraries t...", None, ""),
       add_heading("6.4 Security Implementation", 2, ""),
       add_paragraph("Security is implemented at multiple layers:...", None, ""),
       add_heading("6.5 Testing Strategy", 2, ""),
       add_paragraph("The project implements a comprehensive t...", None, ""),
       add_page_break("")>>

\* lines 808-888
Section7 ==
    <<add_heading("7. Security Considerations", 1, ""),
       add_heading("7.1 Secure Configuration Management", 2, ""),
       add_paragraph("Sensitive configuration is managed throu...", None, ""),
       add_heading("7.2 Authentication and Authorization", 2, ""),
       add_paragraph("JWT-based Authentication:...", None, ""),
       add_heading("7.3 Data Protection", 2, ""),
       add_paragraph("Data is protected through:...", None, ""),
       add_heading("7.4 External API Security", 2, ""),
       add_paragraph("GitHub API Integration:...", None, ""),
       add_page_break("")>>

\* lines 894-1010
Section8 ==
    <<add_heading("8. Results and Evaluation", 1, ""),
       add_heading("8.1 System Performance", 2, ""),
       add_paragraph("The implemented system demonstrates soli...", None, ""),
       add_heading("8.2 Scalability Evaluation", 2, ""),
       add_paragraph("Horizontal Scaling Capabilities:...", None, ""),
       add_heading("8.3 Achievement of Objectives", 2, ""),
       add_paragraph("1. Scalable Microservice Architecture: ?...", None, ""),
       add_heading("8.4 Limitations and Future Work", 2, ""),
       add_paragraph("Current Limitations:...", None, ""),
       add_page_break("")>>

\* lines 1016-1062
Section9 ==
    <<add_heading("9. Conclusion", 1, ""),
       add_paragraph("This thesis has presented a comprehensiv...", None, ""),
       add_page_break("")>>

\* lines 1068-1111
Section10 ==
  LET official_refs == <<
        "NestJS Documentation: https://docs.nestjs.com/",
        "GitHub REST API v3: https://docs.github....",
        "Docker Documentation: https://docs.docker.com/",
        "PostgreSQL Documentation: https://www.po...",
        "Redis Documentation: https://redis.io/do...",
        "TypeScript Handbook: https://www.typescr...",
        "TypeORM Documentation: https://typeorm.io/" >>
      books == <<
        "Sam Newman (2021): Building Microservice...",
        "Martin Fowler (2015): Microservice Architecture",
        "Eric Evans (2003): Domain-Driven Design",
        "Robert C. Martin (2008): Clean Code",
        "Newman, S. (2019): Monolith to Microserv..." >>
      tools == <<
        "Passport.js: http://www.passportjs.org/",
        "Nodemailer: https://nodemailer.com/",
        "Jest: https://jestjs.io/",
        "Docker Hub: https://hub.docker.com/",
        "npm Registry: https://www.npmjs.com/" >>
  IN
    <<add_heading("10. References", 1, ""),
       add_heading("Official Documentation", 2, "")>>
    \o For([n1 \in DOMAIN official_refs |->
          LET ref == official_refs[n1]
          IN  <<add_paragraph(ref, "List Bullet", "")>>])
    \o <<add_heading("Books and Academic Sources", 2, "")>>
    \o For([n1 \in DOMAIN books |->
          LET book == books[n1]
          IN  <<add_paragraph(book, "List Bullet", "")>>])
    \o <<add_heading("Tools and Libraries", 2, "")>>
    \o For([n1 \in DOMAIN tools |->
          LET tool == tools[n1]
          IN  <<add_paragraph(tool, "List Bullet", "")>>])
    \o <<add_page_break("")>>

\* lines 1117-1224
Section11 ==
  LET endpoints == <<
        "POST /auth/register - Register new user",
        "POST /auth/login - Login and receive tokens",
        "POST /auth/refresh - Refresh access token",
        "GET /users/profile - Get current user profile",
        "GET /github/repositories/:owner/:repo - ...",
        "GET /github/repositories/search?q=query ...",
        "GET /github/repositories/:owner/:repo/re...",
        "POST /email/send - Send email notification",
        "GET /logs - Retrieve system logs",
        "GET /health - Service health check" >>
  IN
    <<add_heading("11. Appendices", 1, ""),
       add_heading("A. Configuration Example (.env)", 2, ""),
       add_paragraph("# Environment...", None, "config_para"),
       set_style("config_para", "No Spacing"),
       add_heading("B. Key API Endpoints", 2, "")>>
    \o For([n1 \in DOMAIN endpoints |->
          LET endpoint == endpoints[n1]
          IN  <<add_paragraph(endpoint, "List Bullet", "")>>])
    \o <<add_heading("C. Docker Deployment Commands", 2, ""),
       add_paragraph("# Build all services...", None, "docker_para"),
       set_style("docker_para", "No Spacing"),
       add_heading("D. Testing Commands", 2, ""),
       add_paragraph("# Run all tests...", None, "test_para"),
       set_style("test_para", "No Spacing")>>

\* lines 1230-1230
output_path == "c:\\Users\\Administrator\\Desktop\\Final_Project_2026\\GitHub_Project\\GitHub_Stack_Bachelor_Thesis.docx"

\* A report that announces the document before saving it
ReportThenSave ==
    <<print("? Document created successfully: " \o output_path),
      save(output_path),
      print("? Document contains:")>>

\* A report that goes on to add an empty closing paragraph after the save
SaveThenAppend ==
    <<save(output_path),
      print("? Document created successfully: " \o output_path),
      add_paragraph("", None, "")>>

\* lines 1230-1242
SaveAndReport ==
    <<save(output_path),
       print("? Document created successfully: " \o output_path),
       print("? Document contains:"),
       print("  - Professional title page"),
       print("  - Table of contents"),
       print("  - 11 main sections with comprehensive content"),
       print("  - Multiple subsections with detailed explanations"),
       print("  - Tables and structured data"),
       print("  - Security and implementation details"),
       print("  - References and appendices"),
       print("  - Proper formatting and styling")>>

\* A script that saves before the appendices are added, and again at the end
ProgramSavesEarly ==
    Setup \o TitlePage \o TableOfContents \o Abstract
    \o Section1 \o Section2 \o Section3 \o Section4 \o Section5 \o Section6
    \o Section7 \o Section8 \o Section9 \o Section10
    \o <<save(output_path)>> \o Section11 \o SaveAndReport

\* A script from which section 7 was taken out, the later sections keeping
\* their numbers
ProgramWithoutSection7 ==
    Setup \o TitlePage \o TableOfContents \o Abstract
    \o Section1 \o Section2 \o Section3 \o Section4 \o Section5 \o Section6
    \o Section8 \o Section9 \o Section10 \o Section11
    \o SaveAndReport

\* A script without the '4.3.1 User Roles' heading: the role headings
\* (level 4) come right under '4.3 User Roles and Use Cases' (level 2)
ProgramWithoutUserRolesHeading ==
    SelectSeq(Setup \o TitlePage \o TableOfContents \o Abstract
              \o Section1 \o Section2 \o Section3 \o Section4 \o Section5
              \o Section6 \o Section7 \o Section8 \o Section9 \o Section10
              \o Section11 \o SaveAndReport,
              LAMBDA s : ~(s.op = "add_heading" /\ s.text = "4.3.1 User Roles"))

\* A script from which the '7.2 Authentication and Authorization' heading
\* was taken out, the later subsections keeping their numbers
ProgramWithoutSubsection72 ==
    SelectSeq(Setup \o TitlePage \o TableOfContents \o Abstract
              \o Section1 \o Section2 \o Section3 \o Section4 \o Section5
              \o Section6 \o Section7 \o Section8 \o Section9 \o Section10
              \o Section11 \o SaveAndReport,
              LAMBDA s : ~(/\ s.op = "add_heading"
                           /\ s.text = "7.2 Authentication and Authorization"))

\* The whole script, top to bottom
Program ==
    Setup \o TitlePage \o TableOfContents \o Abstract
    \o Section1 \o Section2 \o Section3 \o Section4 \o Section5 \o Section6
    \o Section7 \o Section8 \o Section9 \o Section10 \o Section11
    \o SaveAndReport

-----------------------------------------------------------------------------
(* The document library's objects *)

\* A run: a span of text with its character format
Run(text) ==
    [text |-> text, bold |-> Unset, italic |-> Unset, size |-> Unset,
     color |-> Unset]

\* A paragraph as doc.add_paragraph(text, style) creates it: a run is added
\* only for a non-empty text; without a style the paragraph is "Normal"
Paragraph(text, style) ==
    [kind |-> "paragraph",
     style |-> IF style = None THEN "Normal" ELSE style,
     alignment |-> None,
     runs |-> IF text = "" THEN <<>> ELSE <<Run(text)>>,
     space_before |-> Unset, space_after |-> Unset, line_spacing |-> Unset]

\* A heading as doc.add_heading(text, level) creates it: a paragraph whose
\* style is "Title" for level 0 and "Heading <level>" otherwise
Heading(text, level) ==
    [kind |-> "heading", level |-> level,
     style |-> IF level = 0 THEN "Title" ELSE "Heading " \o ToString(level),
     alignment |-> None,
     runs |-> IF text = "" THEN <<>> ELSE <<Run(text)>>,
     space_before |-> Unset, space_after |-> Unset, line_spacing |-> Unset]

\* The levels doc.add_heading accepts; any other raises ValueError
HeadingLevels == 0..9

PageBreak == [kind |-> "page_break"]

\* A table as doc.add_table(rows, cols) creates it: every cell empty.
\* writes counts the assignments to each cell's text.
Table(rows, cols) ==
    [kind |-> "table", rows |-> rows, cols |-> cols, style |-> None,
     cells |-> [r \in 1..rows |-> [c \in 1..cols |-> ""]],
     writes |-> [r \in 1..rows |-> [c \in 1..cols |-> 0]]]

\* A body that takes the new block at its front
prepend_block(body, block) == <<block>> \o body

\* The document body takes a new block at its end
append_block(body, block) == Append(body, block)

\* The identity of a block object: the statement that created it
Created(block, stmt) == [id |-> stmt] @@ block

\* A set_paragraph_spacing that adds to the spacing the paragraph has
set_paragraph_spacing_adding(paragraph, space_before, space_after) ==
    [paragraph EXCEPT
        !.space_before = IF @ = Unset THEN Some(Pt(space_before))
                         ELSE Some(@[1] + Pt(space_before)),
        !.space_after = IF @ = Unset THEN Some(Pt(space_after))
                        ELSE Some(@[1] + Pt(space_after)),
        !.line_spacing = Some(<<3, 2>>)]

\* def set_paragraph_spacing(paragraph, space_before=0, space_after=12)
\* line_spacing 1.5 is kept as the fraction <<3, 2>>
set_paragraph_spacing(paragraph, space_before, space_after) ==
    [paragraph EXCEPT !.space_before = Some(Pt(space_before)),
                      !.space_after = Some(Pt(space_after)),
                      !.line_spacing = Some(<<3, 2>>)]

\* The text of a paragraph or heading: its runs' texts, in order
RECURSIVE RunsText(_)
RunsText(runs) ==
    IF runs = <<>> THEN "" ELSE Head(runs).text \o RunsText(Tail(runs))

-----------------------------------------------------------------------------
(* Control *)

Running == raised = "" /\ pc \in 1..Len(Program)
Stmt == Program[pc]
At(op) == Running /\ Stmt.op = op

\* The statement executed after the one at p: the head of the loop when p
\* ends the body of "for section in sections", the next statement otherwise
LoopHeads(p) ==
    {h \in 1..Len(Program) :
        Program[h].op = "for_section" /\ p = h + Program[h].body}
Succ(p) == IF LoopHeads(p) # {} THEN CHOOSE h \in LoopHeads(p) : TRUE ELSE p + 1

\* name = value; a dropped result binds nothing
Bind(e, name, ref) == IF name = "" THEN e ELSE (name :> ref) @@ e

\* What a script variable refers to: a block, and a run or a row in it
Ref(blk, sub) == [blk |-> blk, sub |-> sub]

\* An exception that is caught and dropped (try: ... except: pass): the run
\* goes on with the next statement
RaiseAndSwallow(exception) == raised' = "" /\ pc' = pc + 1

\* An uncaught exception ends the run where it is raised
Raise(exception) == raised' = exception /\ pc' = pc

\* The exceptions open() raises when the path cannot be written
SaveErrors == {"FileNotFoundError", "PermissionError", "OSError"}

\* What a file holds
FileOf(complete, secs, body) ==
    [complete |-> complete, sections |-> secs, blocks |-> body]

Init ==
    /\ pc = 1
    /\ raised = ""
    /\ sections = <<>>
    /\ section = 0
    /\ marginSets = <<>>
    /\ blocks = <<>>
    /\ env = <<>>
    /\ files = <<>>
    /\ saveCalls = 0
    /\ stdout = <<>>

-----------------------------------------------------------------------------
(* Statements of the setup, lines 42-50 *)

\* A Document() that opens the file of an earlier run when there is one
\* (doc = Document(output_path)): the body starts with that file's blocks
CreateDocumentFromFile ==
    /\ At("Document")
    /\ \E m \in TemplateMargins :
         sections' = [s \in 1..TemplateSections |->
                        [top_margin |-> m, bottom_margin |-> m,
                         left_margin |-> m, right_margin |-> m]]
    /\ marginSets' = [s \in 1..TemplateSections |->
                        [top_margin |-> 0, bottom_margin |-> 0,
                         left_margin |-> 0, right_margin |-> 0]]
    /\ blocks' = IF output_path \in DOMAIN files
                 THEN files[output_path].blocks ELSE <<>>
    /\ pc' = Succ(pc)
    /\ UNCHANGED <<raised, section, env, files, saveCalls, stdout>>

\* doc = Document()
CreateDocument ==
    /\ At("Document")
    /\ \E m \in TemplateMargins :
         sections' = [s \in 1..TemplateSections |->
                        [top_margin |-> m, bottom_margin |-> m,
                         left_margin |-> m, right_margin |-> m]]
    /\ marginSets' = [s \in 1..TemplateSections |->
                        [top_margin |-> 0, bottom_margin |-> 0,
                         left_margin |-> 0, right_margin |-> 0]]
    /\ blocks' = <<>>
    /\ pc' = Succ(pc)
    /\ UNCHANGED <<raised, section, env, files, saveCalls, stdout>>

\* for section in sections:   the next section, or past the body
ForSection ==
    /\ At("for_section")
    /\ IF section < Len(sections)
       THEN section' = section + 1 /\ pc' = pc + 1
       ELSE section' = section /\ pc' = pc + Stmt.body + 1
    /\ UNCHANGED <<raised, sections, marginSets, blocks, env, files,
                   saveCalls, stdout>>

\* section.<side>_margin = Inches(...)
SetMargin ==
    /\ At("set_margin")
    /\ sections' = [sections EXCEPT ![section] =
                      [f \in DOMAIN @ |-> IF f = Stmt.side THEN Stmt.value ELSE @[f]]]
    /\ marginSets' = [marginSets EXCEPT ![section] =
                        [f \in DOMAIN @ |-> IF f = Stmt.side THEN @[f] + 1 ELSE @[f]]]
    /\ pc' = Succ(pc)
    /\ UNCHANGED <<raised, section, blocks, env, files, saveCalls, stdout>>

-----------------------------------------------------------------------------
(* Statements that append a block *)

\* doc.add_paragraph(text, style=...)
AddParagraph ==
    /\ At("add_paragraph")
    /\ blocks' = append_block(blocks, Created(Paragraph(Stmt.text, Stmt.style), pc))
    /\ env' = Bind(env, Stmt.bind, Ref(Len(blocks) + 1, 0))
    /\ pc' = Succ(pc)
    /\ UNCHANGED <<raised, sections, section, marginSets, files, saveCalls,
                   stdout>>

\* doc.add_heading(text, level=...)
AddHeading ==
    /\ At("add_heading")
    /\ IF Stmt.level \in HeadingLevels
       THEN /\ blocks' = append_block(blocks, Created(Heading(Stmt.text, Stmt.level), pc))
            /\ env' = Bind(env, Stmt.bind, Ref(Len(blocks) + 1, 0))
            /\ pc' = Succ(pc)
            /\ UNCHANGED raised
       ELSE /\ Raise("ValueError")
            /\ UNCHANGED <<blocks, env>>
    /\ UNCHANGED <<sections, section, marginSets, files, saveCalls, stdout>>

\* doc.add_page_break()
AddPageBreak ==
    /\ At("add_page_break")
    /\ blocks' = append_block(blocks, Created(PageBreak, pc))
    /\ env' = Bind(env, Stmt.bind, Ref(Len(blocks) + 1, 0))
    /\ pc' = Succ(pc)
    /\ UNCHANGED <<raised, sections, section, marginSets, files, saveCalls,
                   stdout>>

\* doc.add_table(rows=..., cols=...)
AddTable ==
    /\ At("add_table")
    /\ blocks' = append_block(blocks, Created(Table(Stmt.rows, Stmt.cols), pc))
    /\ env' = Bind(env, Stmt.bind, Ref(Len(blocks) + 1, 0))
    /\ pc' = Succ(pc)
    /\ UNCHANGED <<raised, sections, section, marginSets, files, saveCalls,
                   stdout>>

-----------------------------------------------------------------------------
(* Statements that change a block the script holds in a variable *)

\* <paragraph>.alignment = WD_ALIGN_PARAGRAPH.<value>
SetAlignment ==
    /\ At("set_alignment")
    /\ blocks' = [blocks EXCEPT ![env[Stmt.var].blk].alignment = Stmt.value]
    /\ pc' = Succ(pc)
    /\ UNCHANGED <<raised, sections, section, marginSets, env, files,
                   saveCalls, stdout>>

\* <paragraph or table>.style = '...'
SetStyle ==
    /\ At("set_style")
    /\ blocks' = [blocks EXCEPT ![env[Stmt.var].blk].style = Stmt.style]
    /\ pc' = Succ(pc)
    /\ UNCHANGED <<raised, sections, section, marginSets, env, files,
                   saveCalls, stdout>>

\* <paragraph>.add_run(text)
AddRun ==
    /\ At("add_run")
    /\ LET b == env[Stmt.var].blk IN
         /\ blocks' = [blocks EXCEPT ![b].runs = Append(@, Run(Stmt.text))]
         /\ env' = Bind(env, Stmt.bind, Ref(b, Len(blocks[b].runs) + 1))
    /\ pc' = Succ(pc)
    /\ UNCHANGED <<raised, sections, section, marginSets, files, saveCalls,
                   stdout>>

\* <run>.font.size = ..., <run>.font.bold = ..., <run>.bold = ...,
\* <run>.font.color.rgb = ...
SetFont ==
    /\ At("set_font")
    /\ LET r == env[Stmt.var] IN
         blocks' = [blocks EXCEPT ![r.blk].runs[r.sub] =
                      [f \in DOMAIN @ |->
                         IF f = Stmt.attr THEN Some(Stmt.value) ELSE @[f]]]
    /\ pc' = Succ(pc)
    /\ UNCHANGED <<raised, sections, section, marginSets, env, files,
                   saveCalls, stdout>>

\* set_paragraph_spacing(<paragraph>, ...)
CallSetParagraphSpacing ==
    /\ At("set_paragraph_spacing")
    /\ blocks' = [blocks EXCEPT ![env[Stmt.var].blk] =
                    set_paragraph_spacing(@, Stmt.space_before, Stmt.space_after)]
    /\ pc' = Succ(pc)
    /\ UNCHANGED <<raised, sections, section, marginSets, env, files,
                   saveCalls, stdout>>

\* <cells> = <table>.rows[i].cells      IndexError outside the table's rows
RowCells ==
    /\ At("row_cells")
    /\ LET t == env[Stmt.var].blk IN
         IF Stmt.row \in 0..(blocks[t].rows - 1)
         THEN /\ env' = Bind(env, Stmt.bind, Ref(t, Stmt.row + 1))
              /\ pc' = Succ(pc)
              /\ UNCHANGED raised
         ELSE /\ Raise("IndexError")
              /\ UNCHANGED env
    /\ UNCHANGED <<sections, section, marginSets, blocks, files, saveCalls,
                   stdout>>

\* <cells>[j].text = '...'              IndexError outside the row's cells
SetCellText ==
    /\ At("set_cell_text")
    /\ LET r == env[Stmt.var] IN
         IF Stmt.col \in 0..(blocks[r.blk].cols - 1)
         THEN /\ blocks' = [blocks EXCEPT
                              ![r.blk].cells[r.sub][Stmt.col + 1] = Stmt.text,
                              ![r.blk].writes[r.sub][Stmt.col + 1] = @ + 1]
              /\ pc' = Succ(pc)
              /\ UNCHANGED raised
         ELSE /\ Raise("IndexError")
              /\ UNCHANGED blocks
    /\ UNCHANGED <<sections, section, marginSets, env, files, saveCalls,
                   stdout>>

-----------------------------------------------------------------------------
(* Save and report, lines 1230-1242 *)

\* A save that creates the file before it finds that it cannot write it:
\* every failure leaves a truncated file at the path
SaveLeavingPartialFile ==
    /\ At("save")
    /\ saveCalls' = saveCalls + 1
    /\ \/ /\ files' = (Stmt.path :> FileOf(TRUE, sections, blocks)) @@ files
          /\ pc' = Succ(pc)
          /\ UNCHANGED raised
       \/ \E e \in SaveErrors :
            /\ Raise(e)
            /\ files' = (Stmt.path :> FileOf(FALSE, <<>>, <<>>)) @@ files
    /\ UNCHANGED <<sections, section, marginSets, blocks, env, stdout>>

\* doc.save(output_path): the file is written whole, or open()/write()
\* raises and nothing catches it.  A path that cannot be opened leaves the
\* filesystem as it was; a write that fails midway (OSError) leaves a
\* truncated file.
Save ==
    /\ At("save")
    /\ saveCalls' = saveCalls + 1
    /\ \/ /\ files' = (Stmt.path :> FileOf(TRUE, sections, blocks)) @@ files
          /\ pc' = Succ(pc)
          /\ UNCHANGED raised
       \/ \E e \in SaveErrors :
            /\ Raise(e)
            /\ files' = IF e = "OSError"
                        THEN (Stmt.path :> FileOf(FALSE, <<>>, <<>>)) @@ files
                        ELSE files
    /\ UNCHANGED <<sections, section, marginSets, blocks, env, stdout>>

\* print(...)
PrintLine ==
    /\ At("print")
    /\ stdout' = Append(stdout, Stmt.text)
    /\ pc' = Succ(pc)
    /\ UNCHANGED <<raised, sections, section, marginSets, blocks, env, files,
                   saveCalls>>

Next ==
    \/ CreateDocument
    \/ ForSection
    \/ SetMargin
    \/ AddParagraph
    \/ AddHeading
    \/ AddPageBreak
    \/ AddTable
    \/ SetAlignment
    \/ SetStyle
    \/ AddRun
    \/ SetFont
    \/ CallSetParagraphSpacing
    \/ RowCells
    \/ SetCellText
    \/ Save
    \/ PrintLine

Spec == Init /\ [][Next]_vars

\* The interpreter runs the script to its end: a statement that can be
\* executed is executed
FairSpec == Spec /\ WF_vars(Next)

-----------------------------------------------------------------------------
(* Properties *)

\* The statements that append a block to the document
AppendOps == {"add_paragraph", "add_heading", "add_page_break", "add_table"}

\* The append statements before statement p, in execution order
AppendsBefore(p) ==
    SelectSeq([i \in 1..(p - 1) |-> i], LAMBDA i : Program[i].op \in AppendOps)

\* The blocks of the document by identity, in document order
BlockIds == [i \in 1..Len(blocks) |-> blocks[i].id]

\* C1: after any prefix of the append operations the document's block
\* sequence is the blocks appended so far, in call order: each append adds
\* one block at the end, and no earlier block is moved, removed or repeated.
BlockOrderIsCallOrder == BlockIds = AppendsBefore(pc)

\* C1 witness: blocks of all four kinds have been appended, the last one by
\* the statement just executed
BlockOrderWitness ==
    /\ Len(blocks) > 3
    /\ {blocks[i].kind : i \in 1..Len(blocks)} =
         {"paragraph", "heading", "page_break", "table"}
    /\ blocks[Len(blocks)].id = pc - 1

\* The tables of the document (their positions in the body)
Tables == {t \in 1..Len(blocks) : blocks[t].kind = "table"}

\* The population of table t has finished: the script has gone on to append
\* the block after it, or has ended
Populated(t) == t < Len(blocks) \/ pc > Len(Program)

\* C2: both tables (5 x 4 and 7 x 2) are populated in full: when the loops
\* have finished every cell has been assigned a string exactly once and none
\* is left empty; no cell is assigned twice on the way; and no row or column
\* outside the declared dimensions is accessed (no IndexError).
TablesFullyPopulated ==
    /\ raised # "IndexError"
    /\ \A t \in Tables :
         /\ <<blocks[t].rows, blocks[t].cols>> \in {<<5, 4>>, <<7, 2>>}
         /\ DOMAIN blocks[t].cells = 1..blocks[t].rows
         /\ \A r \in 1..blocks[t].rows :
              /\ DOMAIN blocks[t].cells[r] = 1..blocks[t].cols
              /\ \A c \in 1..blocks[t].cols :
                   /\ blocks[t].writes[r][c] <= 1
                   /\ blocks[t].writes[r][c] = 0 <=> blocks[t].cells[r][c] = ""
                   /\ Populated(t) => blocks[t].writes[r][c] = 1

\* C2 witness: the run has ended with both tables in the document, the last
\* cell of each assigned
TablesWitness ==
    /\ pc > Len(Program)
    /\ \E t1, t2 \in Tables :
         /\ <<blocks[t1].rows, blocks[t1].cols>> = <<5, 4>>
         /\ <<blocks[t2].rows, blocks[t2].cols>> = <<7, 2>>
         /\ blocks[t1].cells[5][4] = "Independent per service"
         /\ blocks[t2].cells[7][2] = "Docker & Docker Compose"

\* doc.save has been executed
SaveExecuted == saveCalls > 0

\* C3: once doc.save has been executed no later step changes the document:
\* its blocks (with their runs, styles and table cells) and its sections'
\* margins stay as they are.
NoMutationAfterSave ==
    [][SaveExecuted => blocks' = blocks /\ sections' = sections]_vars

\* C3 witness: steps have been taken after the save (the whole confirmation
\* has been printed) and the file holds the document as it still is
NoMutationAfterSaveWitness ==
    /\ SaveExecuted
    /\ Len(stdout) = 10
    /\ output_path \in DOMAIN files
    /\ files[output_path] = FileOf(TRUE, sections, blocks)

FileWritten == output_path \in DOMAIN files /\ files[output_path].complete

\* doc.save was called and did not write the file
SaveFailed == SaveExecuted /\ ~FileWritten

SaveFailurePropagates ==
    SaveFailed =>
        /\ raised \in SaveErrors
        /\ Program[pc].op = "save"
        /\ ~ENABLED Next
        /\ saveCalls = 1
        /\ DOMAIN files \subseteq {output_path}
        /\ stdout = <<>>

\* C5 witness: a save that failed on a path that cannot be opened, nothing
\* written
SaveFailureWitness ==
    /\ SaveFailed
    /\ raised \in {"FileNotFoundError", "PermissionError"}
    /\ files = <<>>

\* C6: the confirmation summary is printed only in a run whose doc.save
\* completed, and only after it; a run whose save failed prints nothing.
ConfirmationOnlyAfterSave ==
    /\ stdout # <<>> => SaveExecuted /\ FileWritten /\ raised = ""
    /\ raised # "" => stdout = <<>>
    /\ stdout # <<>> =>
         stdout[1] = "? Document created successfully: " \o output_path

\* C6 witness: the save completed and the first confirmation line, and only
\* it, has been printed
ConfirmationWitness ==
    /\ FileWritten
    /\ Len(stdout) = 1
    /\ Program[pc].op = "print"

\* The append statements of the whole script
AllAppends == AppendsBefore(Len(Program) + 1)

\* C7: persistent storage is touched by the one doc.save call only: save is
\* called at most once, no file is written without it, and when it is called
\* every content block of the script has already been appended.
SaveIsTheOnlyWrite ==
    /\ saveCalls <= 1
    /\ ~SaveExecuted => files = <<>>
    /\ DOMAIN files \subseteq {output_path}
    /\ SaveExecuted => BlockIds = AllAppends

\* C7 witness: the save has been called, after all 340 blocks, and has left
\* something at the output path
SaveIsTheOnlyWriteWitness ==
    /\ saveCalls = 1
    /\ Len(blocks) = Len(AllAppends)
    /\ Len(blocks) = 340
    /\ output_path \in DOMAIN files
    /\ stdout = <<>>

\* The margins the script gives a section: top and bottom 1 inch, left and
\* right 1.25 inch
ScriptMargins ==
    [top_margin |-> Inches(1, 1), bottom_margin |-> Inches(1, 1),
     left_margin |-> Inches(5, 4), right_margin |-> Inches(5, 4)]

MarginNames == {"top_margin", "bottom_margin", "left_margin", "right_margin"}

\* C8: the margins of every section are set exactly once, after the
\* document is created and before the first block is appended, and never
\* again: no margin is assigned twice or before there is a document, and
\* from the first block on every section has the script's margins, each
\* assigned once.
MarginsSetOnceBeforeContent ==
    /\ DOMAIN marginSets = DOMAIN sections
    /\ \A s \in DOMAIN sections : \A m \in MarginNames : marginSets[s][m] <= 1
    /\ blocks # <<>> =>
         /\ sections # <<>>
         /\ \A s \in DOMAIN sections :
              /\ sections[s] = ScriptMargins
              /\ \A m \in MarginNames : marginSets[s][m] = 1

\* C8 witness: the first block is being appended to a document whose every
\* section has had its four margins set
MarginsWitness ==
    /\ Len(blocks) = 1
    /\ sections # <<>>
    /\ \A s \in DOMAIN sections : sections[s] = ScriptMargins
    /\ section = Len(sections)

\* The headings of the document (their positions in the body)
Headings == {h \in 1..Len(blocks) : blocks[h].kind = "heading"}

\* C9: every heading appended to the document has a level between 1 and 9,
\* and no add_heading call is refused for its level.
HeadingLevelsInRange ==
    /\ raised # "ValueError"
    /\ \A h \in Headings : blocks[h].level \in 1..9

\* C9 witness: headings of the least and of the greatest level the script
\* uses (1, and 4 in the roles loop) are in the document
HeadingLevelsWitness ==
    /\ \E h \in Headings : blocks[h].level = 1
    /\ \E h \in Headings :
         blocks[h].level = 4 /\ blocks[h].style = "Heading 4"

\* The run has ended with the file written: the last statement was executed
EndedWritten == pc = Len(Program) + 1 /\ raised = "" /\ FileWritten

\* The run has been ended by an I/O failure of the save
EndedBySaveFailure ==
    /\ raised \in SaveErrors
    /\ pc \in 1..Len(Program)
    /\ Program[pc].op = "save"
    /\ ~FileWritten

\* C10: every run terminates, in exactly one of two outcomes: the file has
\* been written, or an I/O failure of the save has ended the run.  A state
\* from which no step is possible is one of the two, never both, and every
\* run reaches one and stays there.
RunEndsWrittenOrFailed ==
    /\ [](~ENABLED Next => (EndedWritten \/ EndedBySaveFailure))
    /\ [](~(EndedWritten /\ EndedBySaveFailure))
    /\ <>[]((EndedWritten \/ EndedBySaveFailure) /\ ~ENABLED Next)

\* C10 witness: the run has ended with the file written and the whole
\* confirmation printed
RunEndsWitness == EndedWritten /\ Len(stdout) = 10 /\ ~ENABLED Next

-----------------------------------------------------------------------------
(* The save on a path that cannot be written *)

\* doc.save found no directory to create the file in: open() raised
\* FileNotFoundError, the error of the IOError family for a missing directory
SaveFoundNoDirectory == SaveExecuted /\ raised = "FileNotFoundError"

-----------------------------------------------------------------------------
(* The population loop of the comparison table (lines 313-316) on other    *)
(* data than the script's: the loops are run over the list the variable    *)
(* data holds.  pc is the source line of the loop the run is at.           *)

\* The longest list of data rows, and the longest data row, tried
MaxDataRows == 4
MaxRowLen == 5

\* The strings a data row of the given length is made of: those of the
\* script's row r where it has them, and "extra" beyond
RowOfLen(r, len) ==
    [c \in 1..len |->
        IF r \in DOMAIN data /\ c \in DOMAIN data[r] THEN data[r][c] ELSE "extra"]

\* The lists tried for data: up to MaxDataRows rows of up to MaxRowLen strings
DataLists ==
    UNION {{[r \in 1..n |-> RowOfLen(r, lens[r])] : lens \in [1..n -> 0..MaxRowLen]}
             : n \in 0..MaxDataRows}

\* Positions of the run in lines 313-316
RowLoop == 313
CellLoop == 315
AfterLoops == 318

\* The table as lines 297-304 leave it: 5 x 4, styled, the header row filled
ComparisonTable ==
    [Table(5, 4) EXCEPT !.style = "Light Grid Accent 1",
                        !.cells[1] = <<"Aspect", "Monolithic", "SOA", "Microservices">>,
                        !.writes[1] = <<1, 1, 1, 1>>]

\* The state at line 313, with the list of rows to fill in
InitTable ==
    /\ pc = RowLoop
    /\ raised = ""
    /\ sections = <<>>
    /\ section = 0
    /\ marginSets = <<>>
    /\ blocks = <<Created(ComparisonTable, 297)>>
    /\ \E d \in DataLists :
         env = [table |-> Ref(1, 0), data |-> d, rows_done |-> 0,
                i |-> 0, row_data |-> <<>>, cells |-> Ref(1, 1), cells_done |-> 0]
    /\ files = <<>>
    /\ saveCalls = 0
    /\ stdout = <<>>

\* An inner loop that fills every column of the row: for j in range(cols),
\* cells[j].text = row_data[j]; a row shorter than the table raises IndexError
ForEachColumn ==
    /\ raised = ""
    /\ pc = CellLoop
    /\ LET t == env.cells.blk IN
         IF env.cells_done < blocks[t].cols
         THEN IF env.cells_done + 1 \in DOMAIN env.row_data
              THEN /\ blocks' = [blocks EXCEPT
                          ![t].cells[env.cells.sub][env.cells_done + 1] =
                               env.row_data[env.cells_done + 1],
                          ![t].writes[env.cells.sub][env.cells_done + 1] = @ + 1]
                   /\ env' = [env EXCEPT !.cells_done = @ + 1]
                   /\ UNCHANGED <<pc, raised>>
              ELSE /\ Raise("IndexError")
                   /\ UNCHANGED <<blocks, env>>
         ELSE /\ pc' = RowLoop
              /\ UNCHANGED <<raised, blocks, env>>
    /\ UNCHANGED <<sections, section, marginSets, files, saveCalls, stdout>>

\* for i, row_data in enumerate(data, 1):
\*     cells = table.rows[i].cells      IndexError outside the table's rows
ForRowData ==
    /\ raised = ""
    /\ pc = RowLoop
    /\ IF env.rows_done < Len(env.data)
       THEN LET item == enumerate(env.data, 1)[env.rows_done + 1]
                i == item[1]
                row_data == item[2]
                t == env.table.blk
            IN  IF i \in 0..(blocks[t].rows - 1)
                THEN /\ env' = [env EXCEPT !.rows_done = @ + 1, !.i = i,
                                           !.row_data = row_data,
                                           !.cells = Ref(t, i + 1),
                                           !.cells_done = 0]
                     /\ pc' = CellLoop
                     /\ UNCHANGED raised
                ELSE /\ Raise("IndexError")
                     /\ UNCHANGED env
       ELSE /\ pc' = AfterLoops
            /\ UNCHANGED <<raised, env>>
    /\ UNCHANGED <<sections, section, marginSets, blocks, files, saveCalls,
                   stdout>>

\*     for j, cell_data in enumerate(row_data):
\*         cells[j].text = cell_data    IndexError outside the row's cells
ForCellData ==
    /\ raised = ""
    /\ pc = CellLoop
    /\ IF env.cells_done < Len(env.row_data)
       THEN LET item == enumerate(env.row_data, 0)[env.cells_done + 1]
                j == item[1]
                cell_data == item[2]
                t == env.cells.blk
            IN  IF j \in 0..(blocks[t].cols - 1)
                THEN /\ blocks' = [blocks EXCEPT
                            ![t].cells[env.cells.sub][j + 1] = cell_data,
                            ![t].writes[env.cells.sub][j + 1] = @ + 1]
                     /\ env' = [env EXCEPT !.cells_done = @ + 1]
                     /\ UNCHANGED <<pc, raised>>
                ELSE /\ Raise("IndexError")
                     /\ UNCHANGED <<blocks, env>>
       ELSE /\ pc' = RowLoop
            /\ UNCHANGED <<raised, blocks, env>>
    /\ UNCHANGED <<sections, section, marginSets, files, saveCalls, stdout>>

NextTable == ForRowData \/ ForCellData

TableSpec == InitTable /\ [][NextTable]_vars

\* The list fits the table: no more rows than the table has below its
\* header, no row of more strings than the table has columns
DataFits(d, t) ==
    /\ Len(d) <= t.rows - 1
    /\ \A r \in DOMAIN d : Len(d[r]) <= t.cols

\* What the cell at row r (below the header), column c, holds when in a row
\* the strings supplied are written and the other cells are left blank
BlankFilled(d, r, c) ==
    IF r \in DOMAIN d /\ c \in DOMAIN d[r] THEN d[r][c] ELSE ""

\* C13: in the population loop of the 5 x 4 comparison table, a data row of
\* fewer than 4 strings raises no error and leaves the row's remaining cells
\* empty: for data that fits the table the loop ends without an exception,
\* and then every cell below the header holds the string supplied for it,
\* or "" where none was supplied, so the cells are a function of the data.
ShortRowsLeftBlank ==
    LET t == blocks[env.table.blk]
        d == env.data
    IN  DataFits(d, t) =>
          /\ raised = ""
          /\ t.cells[1] = ComparisonTable.cells[1]
          /\ pc = AfterLoops =>
               \A r \in 1..(t.rows - 1), c \in 1..t.cols :
                  /\ t.cells[r + 1][c] = BlankFilled(d, r, c)
                  /\ t.writes[r + 1][c] =
                        IF r \in DOMAIN d /\ c \in DOMAIN d[r] THEN 1 ELSE 0

\* C13 witness: the loops have ended on data whose second row supplies two
\* strings: its first two cells hold them and its last two are empty
ShortRowsWitness ==
    /\ pc = AfterLoops
    /\ raised = ""
    /\ Len(env.data) = 4
    /\ Len(env.data[2]) = 2
    /\ blocks[1].cells[3] = <<"Scalability", "Component level", "", "">>

-----------------------------------------------------------------------------
(* set_paragraph_spacing (lines 11-16) on any paragraph: the function is   *)
(* called, twice in a row with the same arguments, on a paragraph of a     *)
(* small document whose formatting is arbitrary.  pc counts from 1 the     *)
(* call to make next.                                                      *)

\* The calls made in a row
MaxCalls == 2

\* The points tried for an argument, and for the spacing a paragraph has
SpacingPoints == {0, 6, 12, 24}

\* The forms of the call: set_paragraph_spacing(p), (p, space_after=a),
\* (p, space_before=b), (p, b, a)
CallForms ==
    {<<>>}
    \cup {[space_after |-> a] : a \in SpacingPoints}
    \cup {[space_before |-> b] : b \in SpacingPoints}
    \cup {[space_before |-> b, space_after |-> a] : b, a \in SpacingPoints}

\* The value a parameter takes in a call: the argument given, or the default
Arg(call, name, default) == IF name \in DOMAIN call THEN call[name] ELSE default

\* The paragraphs tried: of any text, style and alignment, the three
\* spacings unset or set
AnyParagraphs ==
    {[Paragraph(text, style) EXCEPT !.alignment = al, !.space_before = sb,
                                    !.space_after = sa, !.line_spacing = ls] :
        text \in {"", "text"}, style \in {None, "List Bullet"},
        al \in {None, "CENTER"},
        sb \in {Unset, Some(Pt(6))}, sa \in {Unset, Some(Pt(24))},
        ls \in {Unset, Some(<<1, 1>>), Some(<<3, 2>>)}}

\* A document of a heading, the paragraph and a page break, in some order,
\* and the call to make on the paragraph
InitSpacing ==
    /\ pc = 1
    /\ raised = ""
    /\ sections = <<>>
    /\ section = 0
    /\ marginSets = <<>>
    /\ \E para \in AnyParagraphs, k \in 1..3 :
         /\ blocks = [n \in 1..3 |->
                        Created(IF n = k THEN para
                                ELSE IF n = (k % 3) + 1 THEN Heading("Introduction", 1)
                                ELSE PageBreak, n)]
         /\ \E call \in CallForms : env = [p |-> Ref(k, 0), call |-> call]
    /\ files = <<>>
    /\ saveCalls = 0
    /\ stdout = <<>>

\* set_paragraph_spacing(p, ...)
ApplySetParagraphSpacing ==
    /\ raised = ""
    /\ pc \in 1..MaxCalls
    /\ blocks' = [blocks EXCEPT ![env.p.blk] =
                    set_paragraph_spacing(@,
                        Arg(env.call, "space_before", space_before_default),
                        Arg(env.call, "space_after", space_after_default))]
    /\ pc' = pc + 1
    /\ UNCHANGED <<raised, sections, section, marginSets, env, files,
                   saveCalls, stdout>>

NextSpacing == ApplySetParagraphSpacing

SpacingSpec == InitSpacing /\ [][NextSpacing]_vars

\* The paragraph the function is called on
Target == blocks[env.p.blk]

\* The paragraph's fields the function is not to touch
KeptFields == {"id", "kind", "style", "alignment", "runs"}

\* C14: set_paragraph_spacing is a total, deterministic mapping: after a
\* call the paragraph's space_before and space_after are the arguments
\* (0 and 12 where none is given) and its line spacing is 1.5, whatever they
\* were before, and no exception was raised; a second call with the same
\* arguments changes nothing; and a call changes nothing else: not the
\* paragraph's text, runs, alignment or style, not its place in the document,
\* not another block.
SpacingSetExactly ==
    /\ [](raised = "")
    /\ [](pc > 1 =>
            /\ Target.space_before =
                 Some(Pt(Arg(env.call, "space_before", 0)))
            /\ Target.space_after =
                 Some(Pt(Arg(env.call, "space_after", 12)))
            /\ Target.line_spacing = Some(<<3, 2>>))
    /\ [][pc > 1 => blocks' = blocks]_vars
    /\ [][/\ DOMAIN blocks' = DOMAIN blocks
          /\ \A n \in DOMAIN blocks :
               /\ n # env.p.blk => blocks'[n] = blocks[n]
               /\ DOMAIN blocks'[n] = DOMAIN blocks[n]
               /\ \A f \in KeptFields \cap DOMAIN blocks[n] :
                    blocks'[n][f] = blocks[n][f]]_vars

\* C14 witness: the function has been called twice without arguments on a
\* centred bulleted paragraph, the second in the document, that had other
\* spacing: the spacing is the defaults and the rest is as it was
SpacingWitness ==
    /\ pc = MaxCalls + 1
    /\ env.call = <<>>
    /\ env.p.blk = 2
    /\ Target = [Created(Paragraph("text", "List Bullet"), 2) EXCEPT
                    !.alignment = "CENTER",
                    !.space_before = Some(Pt(0)),
                    !.space_after = Some(Pt(12)),
                    !.line_spacing = Some(<<3, 2>>)]
    /\ blocks[3].kind = "heading"

-----------------------------------------------------------------------------
(* The script run more than once: each run is a new process (no document,  *)
(* no variables, an empty console) on the file system the runs before it   *)
(* left; saveCalls counts the saves of all the runs.                       *)

\* The runs made one after the other
MaxRuns == 2

\* The run has ended, by its last statement or by an exception
Ended == pc = Len(Program) + 1 \/ raised # ""

\* python create_thesis_docx.py, again
RunAgain ==
    /\ Ended
    /\ saveCalls < MaxRuns
    /\ pc' = 1
    /\ raised' = ""
    /\ sections' = <<>>
    /\ section' = 0
    /\ marginSets' = <<>>
    /\ blocks' = <<>>
    /\ env' = <<>>
    /\ stdout' = <<>>
    /\ UNCHANGED <<files, saveCalls>>

NextRuns == Next \/ RunAgain

RunsSpec == Init /\ [][NextRuns]_vars

\* The run is at doc.save or past it: the document is assembled
AtOrPastSave == \E q \in DOMAIN Program : q <= pc /\ Program[q].op = "save"

-----------------------------------------------------------------------------
(* Numbering and structure of the headings *)

\* The text of the block at position b (a paragraph or a heading)
TextOf(b) == RunsText(blocks[b].runs)

\* The positions of the headings of a level, in document order
HeadingsOfLevel(level) ==
    SelectSeq([b \in 1..Len(blocks) |-> b],
              LAMBDA b : blocks[b].kind = "heading" /\ blocks[b].level = level)

\* The headings the principles loop (lines 327-329) has appended: those
\* whose statement is of the loop, in document order
PrincipleHeadings ==
    SelectSeq([b \in 1..Len(blocks) |-> b],
              LAMBDA b : /\ blocks[b].kind = "heading"
                         /\ \E k \in DOMAIN principles :
                              TextOf(b) \in {"2.2." \o ToString(n) \o " " \o principles[k][1] :
                                               n \in 0..Len(principles)})

\* C16 as stated: the level-3 headings generated from the principles list
\* are numbered 2.2.1, 2.2.2, 2.2.3, 2.2.4 in document order: the k-th
\* heading is "2.2.k" followed by the title of the k-th principle.
PrinciplesNumberedInOrder ==
    \A k \in DOMAIN PrincipleHeadings :
        /\ blocks[PrincipleHeadings[k]].level = 3
        /\ TextOf(PrincipleHeadings[k]) =
             "2.2." \o ToString(k) \o " " \o principles[k][1]

\* The position of the 'Table of Contents' heading (0 before it is appended)
TocHeading ==
    IF \E b \in 1..Len(blocks) :
          blocks[b].kind = "heading" /\ TextOf(b) = "Table of Contents"
    THEN CHOOSE b \in 1..Len(blocks) :
          blocks[b].kind = "heading" /\ TextOf(b) = "Table of Contents"
    ELSE 0

\* The level-1 headings appended after the table of contents
MainHeadings ==
    {b \in 1..Len(blocks) :
        /\ TocHeading # 0 /\ b > TocHeading
        /\ blocks[b].kind = "heading" /\ blocks[b].level = 1}

\* The entries of the table of contents in the document: the bulleted
\* paragraphs the loop of lines 110-112 appended, between the 'Table of
\* Contents' heading and the next level-1 heading
TocEntries ==
    {b \in 1..Len(blocks) :
        /\ TocHeading # 0 /\ b > TocHeading
        /\ blocks[b].kind = "paragraph"
        /\ \A h \in MainHeadings : b < h}

\* C17 as stated: the table of contents agrees with the body: when the
\* document is assembled, every entry of toc_items is in the document and
\* names, number and title, a level-1 heading appended after it, and every
\* level-1 heading after the table of contents has such an entry.
TocAgreesWithBody ==
    AtOrPastSave =>
        /\ {TextOf(b) : b \in TocEntries} = {toc_items[n] : n \in DOMAIN toc_items}
        /\ \A n \in DOMAIN toc_items :
             \E h \in MainHeadings : TextOf(h) = toc_items[n]
        /\ \A h \in MainHeadings :
             \E n \in DOMAIN toc_items : toc_items[n] = TextOf(h)

\* int() of a decimal digit, and whether a character is one
IsDigit(ch) == ch \in {"0", "1", "2", "3", "4", "5", "6", "7", "8", "9"}
DigitValue(ch) ==
    CASE ch = "0" -> 0 [] ch = "1" -> 1 [] ch = "2" -> 2 [] ch = "3" -> 3
      [] ch = "4" -> 4 [] ch = "5" -> 5 [] ch = "6" -> 6 [] ch = "7" -> 7
      [] ch = "8" -> 8 [] ch = "9" -> 9

\* The digits a text starts with, read as a number, and the rest of the text
RECURSIVE LeadingNumber(_, _)
LeadingNumber(text, acc) ==
    IF Len(text) > 0 /\ IsDigit(Head(text))
    THEN LeadingNumber(Tail(text), 10 * acc + DigitValue(Head(text)))
    ELSE <<acc, text>>

\* The number of a main section's heading 'N. Title': N; 0 for a text that
\* does not start with a number followed by '. '
SectionNumber(text) ==
    LET r == LeadingNumber(text, 0)
    IN  IF Len(r[2]) < Len(text) /\ Len(r[2]) > 2 /\ SubSeq(r[2], 1, 2) = ". "
        THEN r[1] ELSE 0

\* The numbered level-1 headings, in document order
NumberedMainHeadings ==
    SelectSeq(HeadingsOfLevel(1), LAMBDA b : SectionNumber(TextOf(b)) # 0)

\* The line of the confirmation that reports the number of main sections
\* (line 1237), for a number n
MainSectionsLine(n) ==
    "  - " \o ToString(n) \o " main sections with comprehensive content"

\* C18: the numbered level-1 headings carry the numbers 1, 2, ... in
\* document order, none skipped or repeated: the k-th of them is numbered k;
\* the assembled document has 11 of them, the number of main sections the
\* confirmation reports.
MainSectionsNumberedInOrder ==
    /\ \A k \in DOMAIN NumberedMainHeadings :
         SectionNumber(TextOf(NumberedMainHeadings[k])) = k
    /\ AtOrPastSave => Len(NumberedMainHeadings) = 11
    /\ \A n \in DOMAIN stdout :
         (\E k \in 0..20 : stdout[n] = MainSectionsLine(k)) =>
             stdout[n] = MainSectionsLine(Len(NumberedMainHeadings))

\* C18 witness: the run has ended, the last numbered heading is
\* '11. Appendices', the eleventh, and the confirmation has reported the
\* number of main sections
MainSectionsWitness ==
    /\ pc = Len(Program) + 1
    /\ Len(NumberedMainHeadings) = 11
    /\ TextOf(NumberedMainHeadings[11]) = "11. Appendices"
    /\ TextOf(NumberedMainHeadings[1]) = "1. Introduction"
    /\ \E n \in DOMAIN stdout : stdout[n] = MainSectionsLine(11)

\* The page breaks of the document (their positions in the body)
PageBreaks == {b \in 1..Len(blocks) : blocks[b].kind = "page_break"}

\* The block at position b is a level-1 heading
IsMainHeading(b) == blocks[b].kind = "heading" /\ blocks[b].level = 1

\* C19: every level-1 heading is immediately preceded in the block sequence
\* by a page break, the 'Table of Contents' and 'Abstract' headings
\* included, and a page break is followed by a level-1 heading or (while it
\* is the last block) by nothing.
MainSectionsStartOnNewPage ==
    /\ \A b \in 1..Len(blocks) :
         IsMainHeading(b) => b > 1 /\ (b - 1) \in PageBreaks
    /\ \A b \in PageBreaks : b < Len(blocks) => IsMainHeading(b + 1)

\* C19 witness: the run has ended with the thirteen level-1 headings in the
\* document (table of contents, abstract, sections 1 to 11) and as many
\* page breaks, the one before 'Abstract' among them
MainSectionsNewPageWitness ==
    /\ pc = Len(Program) + 1
    /\ Cardinality(PageBreaks) = 13
    /\ Len(HeadingsOfLevel(1)) = 13
    /\ \E b \in PageBreaks : TextOf(b + 1) = "Abstract"
    /\ TocHeading - 1 \in PageBreaks

\* The levels of the headings, in document order
HeadingLevelSeq ==
    LET hs == SelectSeq([b \in 1..Len(blocks) |-> b],
                        LAMBDA b : blocks[b].kind = "heading")
    IN  [k \in DOMAIN hs |-> blocks[hs[k]].level]

\* C20: in the sequence of headings in document order a heading is never
\* more than one level deeper than the heading before it: a level-3 heading
\* follows a heading of level 2 or deeper, a level-4 heading one of level 3
\* or deeper.
HeadingsDescendOneLevel ==
    \A k \in DOMAIN HeadingLevelSeq :
        k > 1 => HeadingLevelSeq[k] <= HeadingLevelSeq[k - 1] + 1

\* C20 witness: the roles loop has appended its first level-4 heading,
\* 'Anonymous User', right after the level-3 heading '4.3.1 User Roles'
HeadingsDescendWitness ==
    /\ Len(blocks) > 1
    /\ blocks[Len(blocks)].kind = "heading"
    /\ blocks[Len(blocks)].level = 4
    /\ TextOf(Len(blocks)) = "Anonymous User"
    /\ blocks[Len(blocks) - 1].kind = "heading"
    /\ blocks[Len(blocks) - 1].level = 3

\* The numbers of a subsection's heading 'N.M Title': <<N, M>>; <<0, 0>>
\* for a text that does not start with two numbers joined by '.' and
\* followed by ' '
SubsectionNumber(text) ==
    LET n == LeadingNumber(text, 0)
    IN  IF Len(n[2]) < Len(text) /\ Len(n[2]) > 1 /\ Head(n[2]) = "."
        THEN LET m == LeadingNumber(Tail(n[2]), 0)
             IN  IF /\ Len(m[2]) < Len(n[2]) - 1
                    /\ Len(m[2]) > 1
                    /\ Head(m[2]) = " "
                 THEN <<n[1], m[1]>> ELSE <<0, 0>>
        ELSE <<0, 0>>

\* The numbered level-2 headings (their positions in the body)
NumberedSubsections ==
    {b \in 1..Len(blocks) :
        /\ blocks[b].kind = "heading" /\ blocks[b].level = 2
        /\ SubsectionNumber(TextOf(b)) # <<0, 0>>}

\* The most recent level-1 heading before position b (0 when there is none)
MainHeadingBefore(b) ==
    LET hs == {h \in 1..(b - 1) : IsMainHeading(h)}
    IN  IF hs = {} THEN 0 ELSE CHOOSE h \in hs : \A g \in hs : g <= h

\* C21: every numbered level-2 heading 'N.M ...' is appended while the most
\* recent level-1 heading is 'N. ...', and within a main section the
\* numbers M run 1, 2, 3, ... in document order: M is one more than the
\* number of numbered level-2 headings between the section's heading and
\* this one.
SubsectionsNumberedInSection ==
    \A b \in NumberedSubsections :
        LET main == MainHeadingBefore(b)
            nm == SubsectionNumber(TextOf(b))
        IN  /\ main # 0
            /\ SectionNumber(TextOf(main)) = nm[1]
            /\ nm[2] = 1 + Cardinality({s \in NumberedSubsections : main < s /\ s < b})

\* C21 witness: the run has ended with the subsections of sections 1, 7 and
\* 8 in the document, '8.4 Limitations and Future Work' the fourth under
\* '8. Results and Evaluation'
SubsectionsWitness ==
    /\ pc = Len(Program) + 1
    /\ \E b \in NumberedSubsections :
         /\ TextOf(b) = "8.4 Limitations and Future Work"
         /\ SubsectionNumber(TextOf(b)) = <<8, 4>>
         /\ TextOf(MainHeadingBefore(b)) = "8. Results and Evaluation"
    /\ \E b \in NumberedSubsections : SubsectionNumber(TextOf(b)) = <<1, 5>>
    /\ \E b \in NumberedSubsections : SubsectionNumber(TextOf(b)) = <<7, 2>>
    /\ Cardinality(NumberedSubsections) = 34

-----------------------------------------------------------------------------
(* add_styled_paragraph (lines 29-39) called on a small document.  pc is   *)
(* the source line the call is at (40: it has returned).                   *)

\* The paragraph styles of the template of Document()
TemplateStyles ==
    {"Normal", "Title", "List Bullet", "No Spacing"}
    \cup {"Heading " \o ToString(n) : n \in 1..9}

\* The documents a helper is called on: empty, or with blocks of its own
SmallDocuments ==
    {<<>>,
     <<Created(Heading("Introduction", 1), 1)>>,
     <<Created(Heading("Introduction", 1), 1),
       Created([Paragraph("text", None) EXCEPT !.runs[1].bold = Some(TRUE)], 2)>>}

\* The forms of the call add_styled_paragraph(doc, text, style=..., bold=...,
\* italic=...): each keyword given or left to its default
StyledParagraphCalls ==
    {[text |-> text] @@ style @@ bold @@ italic :
        text \in {"", "text"},
        style \in {<<>>} \cup {[style |-> s] : s \in {"Normal", "List Bullet"}},
        bold \in {<<>>} \cup {[bold |-> b] : b \in BOOLEAN},
        italic \in {<<>>} \cup {[italic |-> i] : i \in BOOLEAN}}

\* The parameters of the call in progress
StyledStyle == Arg(env.call, "style", "Normal")
StyledBold == Arg(env.call, "bold", FALSE)
StyledItalic == Arg(env.call, "italic", FALSE)

InitStyledParagraph ==
    /\ pc = 31
    /\ raised = ""
    /\ sections = <<>>
    /\ section = 0
    /\ marginSets = <<>>
    /\ blocks \in SmallDocuments
    /\ \E c \in StyledParagraphCalls :
         env = [call |-> c, p |-> Ref(0, 0), runs_done |-> 0, result |-> Ref(0, 0)]
    /\ files = <<>>
    /\ saveCalls = 0
    /\ stdout = <<>>

\* line 31: p = doc.add_paragraph(text, style=style)
StyledAddParagraph ==
    /\ raised = ""
    /\ pc = 31
    /\ blocks' = append_block(blocks,
                    Created(Paragraph(env.call["text"], StyledStyle), 31))
    /\ env' = [env EXCEPT !.p = Ref(Len(blocks) + 1, 0)]
    /\ pc' = 32
    /\ UNCHANGED <<raised, sections, section, marginSets, files, saveCalls,
                   stdout>>

\* The run styling under "if bold and italic": nothing is done for one flag
StyleRunsWhenBoth ==
    /\ raised = ""
    /\ pc = 32
    /\ IF StyledBold /\ StyledItalic /\ env.runs_done < Len(blocks[env.p.blk].runs)
       THEN /\ blocks' = [blocks EXCEPT ![env.p.blk].runs[env.runs_done + 1] =
                            [@ EXCEPT !.bold = Some(TRUE), !.italic = Some(TRUE)]]
            /\ env' = [env EXCEPT !.runs_done = @ + 1]
            /\ UNCHANGED pc
       ELSE /\ pc' = 38
            /\ UNCHANGED <<blocks, env>>
    /\ UNCHANGED <<raised, sections, section, marginSets, files, saveCalls,
                   stdout>>

\* lines 32-37: if bold or italic: for run in p.runs:
\*                  if bold: run.bold = True
\*                  if italic: run.italic = True
\* one run of the paragraph per step
StyleRuns ==
    /\ raised = ""
    /\ pc = 32
    /\ IF (StyledBold \/ StyledItalic) /\ env.runs_done < Len(blocks[env.p.blk].runs)
       THEN /\ blocks' = [blocks EXCEPT ![env.p.blk].runs[env.runs_done + 1] =
                            [@ EXCEPT
                               !.bold = IF StyledBold THEN Some(TRUE) ELSE @,
                               !.italic = IF StyledItalic THEN Some(TRUE) ELSE @]]
            /\ env' = [env EXCEPT !.runs_done = @ + 1]
            /\ UNCHANGED pc
       ELSE /\ pc' = 38
            /\ UNCHANGED <<blocks, env>>
    /\ UNCHANGED <<raised, sections, section, marginSets, files, saveCalls,
                   stdout>>

\* line 38: set_paragraph_spacing(p)
StyledSetSpacing ==
    /\ raised = ""
    /\ pc = 38
    /\ blocks' = [blocks EXCEPT ![env.p.blk] =
                    set_paragraph_spacing(@, space_before_default,
                                          space_after_default)]
    /\ pc' = 39
    /\ UNCHANGED <<raised, sections, section, marginSets, env, files,
                   saveCalls, stdout>>

\* line 39: return p
StyledReturn ==
    /\ raised = ""
    /\ pc = 39
    /\ env' = [env EXCEPT !.result = env.p]
    /\ pc' = 40
    /\ UNCHANGED <<raised, sections, section, marginSets, blocks, files,
                   saveCalls, stdout>>

NextStyledParagraph ==
    StyledAddParagraph \/ StyleRuns \/ StyledSetSpacing \/ StyledReturn

StyledParagraphSpec == InitStyledParagraph /\ [][NextStyledParagraph]_vars

\* C22: add_styled_paragraph appends exactly one paragraph to the document
\* and returns it: the first step adds one block at the end, no step changes
\* an earlier block, and what is returned is that last block, a paragraph of
\* the text and style given; each of its runs is bold exactly when bold=True
\* was passed and italic exactly when italic=True was passed, the runs being
\* as add_paragraph made them when both flags are False; and its spacing is
\* space_before 0, space_after 12, line spacing 1.5.  Nothing is raised.
StyledParagraphAsFlagged ==
    /\ [](raised = "")
    /\ [](pc = 40 =>
            LET para == blocks[env.result.blk] IN
              /\ env.result = Ref(Len(blocks), 0)
              /\ para.kind = "paragraph"
              /\ para.id = 31
              /\ para.style = Arg(env.call, "style", "Normal")
              /\ RunsText(para.runs) = env.call["text"]
              /\ \A r \in DOMAIN para.runs :
                   /\ para.runs[r].bold = Some(TRUE) <=>
                        Arg(env.call, "bold", FALSE) = TRUE
                   /\ para.runs[r].italic = Some(TRUE) <=>
                        Arg(env.call, "italic", FALSE) = TRUE
              /\ (~Arg(env.call, "bold", FALSE) /\ ~Arg(env.call, "italic", FALSE))
                   => para.runs = Paragraph(env.call["text"], None).runs
              /\ para.space_before = Some(Pt(0))
              /\ para.space_after = Some(Pt(12))
              /\ para.line_spacing = Some(<<3, 2>>))
    /\ [][IF pc = 31
          THEN Len(blocks') = Len(blocks) + 1
               /\ SubSeq(blocks', 1, Len(blocks)) = blocks
          ELSE Len(blocks') = Len(blocks)
               /\ \A n \in 1..(Len(blocks) - 1) : blocks'[n] = blocks[n]]_vars

\* C22 witness: add_styled_paragraph(doc, 'text', bold=True) has returned
\* on a document of two blocks: the third block is the paragraph, its run
\* bold and not italic, and the two blocks before it are as they were
StyledParagraphWitness ==
    /\ pc = 40
    /\ env.call = [text |-> "text", bold |-> TRUE]
    /\ Len(blocks) = 3
    /\ env.result.blk = 3
    /\ blocks[3].runs = <<[Run("text") EXCEPT !.bold = Some(TRUE)]>>
    /\ blocks[3].style = "Normal"
    /\ SubSeq(blocks, 1, 2) \in SmallDocuments

-----------------------------------------------------------------------------
(* add_heading_with_styling (lines 18-27) called on a small document made  *)
(* by Document().  pc is the source line the call is at (28: it has        *)
(* returned).                                                              *)

\* The highest level tried: the highest doc.add_heading accepts
MaxLevel == 9

InitStyledHeading ==
    /\ pc = 20
    /\ raised = ""
    /\ sections = <<>>
    /\ section = 0
    /\ marginSets = <<>>
    /\ blocks \in SmallDocuments
    /\ \E text \in {"", "Introduction"}, level \in 0..MaxLevel :
         env = [text |-> text, level |-> level, before |-> Len(blocks),
                heading |-> Ref(0, 0), result |-> Ref(0, 0)]
    /\ files = <<>>
    /\ saveCalls = 0
    /\ stdout = <<>>

\* line 20: heading = doc.add_heading(text, level=level)
\* ValueError for a level outside 0..9, nothing appended
StyledAddHeading ==
    /\ raised = ""
    /\ pc = 20
    /\ IF env.level \in HeadingLevels
       THEN /\ blocks' = append_block(blocks,
                            Created(Heading(env.text, env.level), 20))
            /\ env' = [env EXCEPT !.heading = Ref(Len(blocks) + 1, 0)]
            /\ pc' = 21
            /\ UNCHANGED raised
       ELSE /\ Raise("ValueError")
            /\ UNCHANGED <<blocks, env>>
    /\ UNCHANGED <<sections, section, marginSets, files, saveCalls, stdout>>

\* line 21: heading.style = f'Heading {level}'
\* KeyError when the template has no style of that name
StyledSetHeadingStyle ==
    /\ raised = ""
    /\ pc = 21
    /\ LET name == "Heading " \o ToString(env.level) IN
         IF name \in TemplateStyles
         THEN /\ blocks' = [blocks EXCEPT ![env.heading.blk].style = name]
              /\ pc' = 22
              /\ UNCHANGED raised
         ELSE /\ Raise("KeyError")
              /\ UNCHANGED blocks
    /\ UNCHANGED <<sections, section, marginSets, env, files, saveCalls,
                   stdout>>

\* lines 22-26: if level == 1: space_before = Pt(12), space_after = Pt(12),
\*                             alignment = WD_ALIGN_PARAGRAPH.LEFT
StyledFormatHeading ==
    /\ raised = ""
    /\ pc = 22
    /\ blocks' = IF env.level = 1
                 THEN [blocks EXCEPT ![env.heading.blk] =
                         [@ EXCEPT !.space_before = Some(Pt(12)),
                                   !.space_after = Some(Pt(12)),
                                   !.alignment = "LEFT"]]
                 ELSE blocks
    /\ pc' = 27
    /\ UNCHANGED <<raised, sections, section, marginSets, env, files,
                   saveCalls, stdout>>

\* line 27: return heading
StyledReturnHeading ==
    /\ raised = ""
    /\ pc = 27
    /\ env' = [env EXCEPT !.result = env.heading]
    /\ pc' = 28
    /\ UNCHANGED <<raised, sections, section, marginSets, blocks, files,
                   saveCalls, stdout>>

NextStyledHeading ==
    \/ StyledAddHeading
    \/ StyledSetHeadingStyle
    \/ StyledFormatHeading
    \/ StyledReturnHeading

StyledHeadingSpec == InitStyledHeading /\ [][NextStyledHeading]_vars

\* The call has ended: it has returned, or an exception has left it
StyledHeadingEnded == pc = 28 \/ raised # ""

=============================================================================
